---------------------------- MODULE Spec2Model ----------------------------
(***************************************************************************)
(* universalis-alerts: the stream client and per-frame alert pipeline of   *)
(* src/src/main.rs, and the trigger evaluator of src/src/trigger.rs.       *)
(*                                                                         *)
(* Spec      the process of main(): connect, subscribe, then the           *)
(*           read.for_each loop (decode, fetch, evaluate, get_item, post). *)
(* SpecEval  the pure evaluator AlertTrigger::evaluate of trigger.rs (f32) *)
(*           and of main.rs (i32), applied to inputs drawn from bounded    *)
(*           sets.                                                         *)
(* SpecCalls evaluate of trigger.rs called after a sequence of earlier     *)
(*           calls, with the reducer contexts those calls left behind.     *)
(***************************************************************************)
EXTENDS Integers, Sequences, FiniteSets, TLC

VARIABLES
    pc,             \* position of main(): "start", "connected", "streaming", ...
    cause,          \* why the process ended ("none" while it runs)
    store,          \* rows of table users_alerts_next, in table order
    written_at,     \* frame_no at the latest write to the table (0: none yet)
    frame_no,       \* number of data frames read from the stream so far
    ev,             \* the decoded ListingsAddEvent of the frame in progress
    alerts,         \* Vec<(UserAlert, AlertTrigger)> fetched for the frame
    idx,            \* position of the `for (alert, trigger) in alerts` loop
    trigger_result, \* Option<i32> of the alert at idx
    posts,          \* webhook POSTs issued for the frame in progress, in order
    conns,          \* number of websocket connections opened
    subs,           \* number of subscribe messages sent
    e_trigger,      \* SpecEval: Some(the trigger.rs AlertTrigger under test)
    e_listings,     \* SpecEval: the listings under test
    e_result,       \* SpecEval: result of trigger.rs evaluate, or Pending
    m_trigger,      \* SpecEval: Some(the main.rs AlertTrigger under test)
    m_result,       \* SpecEval: result of main.rs evaluate, or Pending
    e_context,      \* SpecCalls: the ReducerContext the latest earlier call left
    e_calls         \* SpecCalls: number of earlier calls of evaluate

vars == <<pc, cause, store, written_at, frame_no, ev, alerts, idx, trigger_result, posts,
          conns, subs, e_trigger, e_listings, e_result, m_trigger, m_result,
          e_context, e_calls>>

pipeVars == <<pc, cause, store, written_at, frame_no, ev, alerts, idx, trigger_result,
              posts, conns, subs>>

evalVars == <<e_trigger, e_listings, e_result, m_trigger, m_result,
              e_context, e_calls>>

----------------------------------------------------------------------------
(* Bounds of the model *)

\* data frames read from the stream in one run
MaxFrames == 2
\* rows in table users_alerts_next
MaxRows == 2
\* listings handed to evaluate in SpecEval
MaxLen == 3
\* calls of evaluate made before the call under observation in SpecCalls
MaxCalls == 2

----------------------------------------------------------------------------
(* Option<T> and Result<T>: the empty sequence is None / Err, <<v>> is      *)
(* Some(v) / Ok(v).                                                        *)

None == <<>>

Some(v) == <<v>>

is_none(o) == o = None

unwrap(o) == o[1]

SeqsUpTo(S, n) == UNION {[1..k -> S] : k \in 0..n}

----------------------------------------------------------------------------
(* main.rs: the trigger types of the running pipeline (i32 scalars)        *)

\* TriggerFilterOp<Listing> for TriggerFilter
main_TriggerFilter_evaluate(f, value) ==
    CASE f = "Hq" -> value.hq

\* TriggerMapOp<Listing, i32> for TriggerMapper
main_TriggerMapper_evaluate(m, listing) ==
    CASE m = "UnitPrice" -> listing.unit_price

\* TriggerReduceOp<i32> for TriggerReducer
main_TriggerReducer_evaluate(r, accum, item) ==
    CASE r = "Min" -> IF accum <= item THEN accum ELSE item

\* ComparisonOp<i32> for Comparison
main_Comparison_evaluate(c, value) ==
    CASE c.kind = "LessThan" -> value < c.target

\* `.filter(|l| self.filters.clone().into_iter().all(|f| f.evaluate(l)))`
main_filtered(trigger, listings) ==
    SelectSeq(listings,
              LAMBDA l : \A i \in DOMAIN trigger.filters :
                             main_TriggerFilter_evaluate(trigger.filters[i], l))

\* `.map(|l| self.mapper.evaluate(l))`
main_mapped(trigger, listings) ==
    [i \in DOMAIN listings |-> main_TriggerMapper_evaluate(trigger.mapper, listings[i])]

RECURSIVE main_fold(_, _, _, _)
\* Iterator::reduce after the seed: fold items[from..] into accum
main_fold(trigger, accum, items, from) ==
    IF from > Len(items) THEN accum
    ELSE main_fold(trigger,
                   main_TriggerReducer_evaluate(trigger.reducer, accum, items[from]),
                   items, from + 1)

\* `.reduce(|accum, item| self.reducer.evaluate(&accum, &item))`
main_reduced(trigger, items) ==
    IF Len(items) = 0 THEN None
    ELSE Some(main_fold(trigger, items[1], items, 2))

\* AlertTrigger::evaluate of main.rs
main_AlertTrigger_evaluate(trigger, listings) ==
    LET r == main_reduced(trigger, main_mapped(trigger, main_filtered(trigger, listings)))
    IN  IF is_none(r) THEN None
        ELSE IF main_Comparison_evaluate(trigger.comparison, unwrap(r)) THEN r
        ELSE None

----------------------------------------------------------------------------
(* f32: a finite IEEE-754 single is m * 2^e with |m| < 2^MantissaBits; the *)
(* canonical form has m odd, or m = 0 and e = 0.  Every operation rounds   *)
(* its exact result to nearest, ties to even.  The values of the model     *)
(* stay far from the exponent limits, so overflow to infinity and          *)
(* subnormals do not arise, and no operation yields NaN.                   *)

\* bits of an f32 significand
MantissaBits == 24

Abs(n) == IF n < 0 THEN -n ELSE n

RECURSIVE BitLen(_)
\* number of bits of n >= 0
BitLen(n) == IF n = 0 THEN 0 ELSE 1 + BitLen(n \div 2)

RECURSIVE F32Norm(_, _)
\* canonical form of m * 2^e
F32Norm(m, e) ==
    IF m = 0 THEN [m |-> 0, e |-> 0]
    ELSE IF m % 2 = 0 THEN F32Norm(m \div 2, e + 1)
    ELSE [m |-> m, e |-> e]

\* m * 2^e, m >= 0, rounded to MantissaBits bits, ties to even
F32RoundMag(m, e) ==
    LET k == BitLen(m) - MantissaBits
    IN  IF k <= 0 THEN F32Norm(m, e)
        ELSE LET q    == m \div (2 ^ k)
                 r    == m % (2 ^ k)
                 half == 2 ^ (k - 1)
                 up   == r > half \/ (r = half /\ q % 2 = 1)
             IN  F32Norm(IF up THEN q + 1 ELSE q, e + k)

F32Neg(a) == [m |-> -a.m, e |-> a.e]

F32Round(m, e) ==
    IF m < 0 THEN F32Neg(F32RoundMag(-m, e)) ELSE F32RoundMag(m, e)

\* `x as f32` for an i32 x
i32_as_f32(x) == F32Round(x, 0)

\* position just above the leading bit
F32Top(a) == BitLen(Abs(a.m)) + a.e

\* floor(a / 2^E) doubled, with the lowest bit set when bits were dropped
F32Sticky(a, E) ==
    IF a.e >= E THEN 2 * a.m * (2 ^ (a.e - E))
    ELSE IF E - a.e > 30 THEN (IF a.m < 0 THEN -1 ELSE 1)
    ELSE 2 * (a.m \div (2 ^ (E - a.e)))
         + (IF a.m % (2 ^ (E - a.e)) = 0 THEN 0 ELSE 1)

\* a + b
F32Add(a, b) ==
    IF a.m = 0 THEN b
    ELSE IF b.m = 0 THEN a
    ELSE LET top == IF F32Top(a) > F32Top(b) THEN F32Top(a) ELSE F32Top(b)
             E   == top - 28
         IN  F32Round(F32Sticky(a, E) + F32Sticky(b, E), E - 1)

\* a * b
F32Mul(a, b) == F32Round(a.m * b.m, a.e + b.e)

RECURSIVE F32DivBits(_, _, _, _)
\* long division: quotient bits until the quotient has 26 of them
F32DivBits(q, r, d, s) ==
    IF BitLen(q) >= MantissaBits + 2 THEN [q |-> q, r |-> r, s |-> s]
    ELSE LET bit == IF 2 * r >= d THEN 1 ELSE 0
         IN  F32DivBits(2 * q + bit, 2 * r - bit * d, d, s + 1)

\* a / b for b /= 0
F32Div(a, b) ==
    IF a.m = 0 THEN a
    ELSE LET n   == Abs(a.m)
             d   == Abs(b.m)
             x   == F32DivBits(n \div d, n % d, d, 0)
             mag == F32RoundMag(2 * x.q + (IF x.r = 0 THEN 0 ELSE 1),
                                a.e - b.e - x.s - 1)
         IN  IF (a.m < 0) = (b.m < 0) THEN mag ELSE F32Neg(mag)

\* a < b for a, b >= 0
F32LtMag(a, b) ==
    IF a.m = 0 THEN b.m /= 0
    ELSE IF b.m = 0 THEN FALSE
    ELSE IF F32Top(a) /= F32Top(b) THEN F32Top(a) < F32Top(b)
    ELSE LET e == IF a.e < b.e THEN a.e ELSE b.e
         IN  a.m * (2 ^ (a.e - e)) < b.m * (2 ^ (b.e - e))

\* a < b
F32Lt(a, b) ==
    IF a.m < 0 /\ b.m >= 0 THEN TRUE
    ELSE IF a.m >= 0 /\ b.m < 0 THEN FALSE
    ELSE IF a.m < 0 THEN F32LtMag(F32Neg(b), F32Neg(a))
    ELSE F32LtMag(a, b)

\* variant of f32_min that yields the accumulator unless the item is less
\* than it by 1.0 or more
f32_min_coarse(a, b) == IF F32Lt(F32Add(b, [m |-> 1, e |-> 0]), a) THEN b ELSE a

\* f32::min and f32::max on numbers
f32_min(a, b) == IF F32Lt(b, a) THEN b ELSE a

f32_max(a, b) == IF F32Lt(a, b) THEN b ELSE a

----------------------------------------------------------------------------
(* trigger.rs: the trigger types with f32 scalars                          *)

F32One == [m |-> 1, e |-> 0]

\* TriggerFilterOp<Listing> for TriggerFilter
TriggerFilter_evaluate(f, value) ==
    CASE f = "Hq" -> value.hq

\* TriggerMapOp<Listing, f32> for TriggerMapper
TriggerMapper_evaluate(m, listing) ==
    CASE m = "UnitPrice" -> i32_as_f32(listing.unit_price)

\* `ReducerContext::<f32> { stack: Vec::new() }`
ReducerContext_new == [stack |-> <<>>]

\* variant of PopOrOne whose count begins at 0: `unwrap_or(0.0)`
PopOrZero(stack) == IF Len(stack) = 0 THEN [m |-> 0, e |-> 0] ELSE stack[Len(stack)]

\* `context.stack.pop().unwrap_or(1.0)`
PopOrOne(stack) == IF Len(stack) = 0 THEN F32One ELSE stack[Len(stack)]

\* the stack after `pop()`
Popped(stack) == IF Len(stack) = 0 THEN stack ELSE SubSeq(stack, 1, Len(stack) - 1)

\* the Mean arm: (n * accum + item) / (n + 1.0)
MeanStep(n, accum, item) ==
    F32Div(F32Add(F32Mul(n, accum), item), F32Add(n, F32One))

\* variant of TriggerReducer_evaluate whose Min arm keeps the accumulator and
\* whose Max arm keeps the item, whatever their order
TriggerReducer_evaluate_swapped(r, context, accum, item) ==
    CASE r = "Min"  -> [value |-> accum, context |-> context]
      [] r = "Max"  -> [value |-> item, context |-> context]
      [] r = "Mean" ->
            LET n == PopOrOne(context.stack)
            IN  [value   |-> MeanStep(n, accum, item),
                 context |-> [stack |-> Append(Popped(context.stack),
                                               F32Add(n, F32One))]]

\* TriggerReduceOp<f32> for TriggerReducer: the value and the context it leaves
TriggerReducer_evaluate(r, context, accum, item) ==
    CASE r = "Min"  -> [value |-> f32_min(accum, item), context |-> context]
      [] r = "Max"  -> [value |-> f32_max(accum, item), context |-> context]
      [] r = "Mean" ->
            LET n == PopOrOne(context.stack)
            IN  [value   |-> MeanStep(n, accum, item),
                 context |-> [stack |-> Append(Popped(context.stack),
                                               F32Add(n, F32One))]]

\* variant of Comparison_evaluate with <= and >= for < and >
Comparison_evaluate_nonstrict(c, value) ==
    CASE c.kind = "LessThan"    -> ~F32Lt(c.target, value)
      [] c.kind = "GreaterThan" -> ~F32Lt(value, c.target)

\* ComparisonOp<f32> for Comparison
Comparison_evaluate(c, value) ==
    CASE c.kind = "LessThan"    -> F32Lt(value, c.target)
      [] c.kind = "GreaterThan" -> F32Lt(c.target, value)

\* variant of filtered with `any` for `all` (OR semantics)
filtered_any(trigger, listings) ==
    SelectSeq(listings,
              LAMBDA l : \E i \in DOMAIN trigger.filters :
                             TriggerFilter_evaluate(trigger.filters[i], l))

\* `.filter(|l| self.filters.iter().all(|f| f.evaluate(l)))`
filtered(trigger, listings) ==
    SelectSeq(listings,
              LAMBDA l : \A i \in DOMAIN trigger.filters :
                             TriggerFilter_evaluate(trigger.filters[i], l))

\* `.map(|l| self.mapper.evaluate(l))`
mapped(trigger, listings) ==
    [i \in DOMAIN listings |-> TriggerMapper_evaluate(trigger.mapper, listings[i])]

RECURSIVE fold(_, _, _, _, _)
\* Iterator::reduce after the seed: fold items[from..] into accum
fold(trigger, context, accum, items, from) ==
    IF from > Len(items) THEN [value |-> accum, context |-> context]
    ELSE LET step == TriggerReducer_evaluate(trigger.reducer, context, accum, items[from])
         IN  fold(trigger, step.context, step.value, items, from + 1)

\* variant of reduced that folds from a zero seed (Iterator::fold) and so
\* yields Some(0.0) for no items
reduced_from_zero(trigger, items) ==
    Some(fold(trigger, ReducerContext_new, [m |-> 0, e |-> 0], items, 1).value)

\* `.reduce(|accum, item| self.reducer.evaluate(&mut context, &accum, &item))`
\* with the context of line 143; None for no items
reduced(trigger, items) ==
    IF Len(items) = 0 THEN None
    ELSE Some(fold(trigger, ReducerContext_new, items[1], items, 2).value)

\* AlertTrigger::evaluate of trigger.rs
AlertTrigger_evaluate(trigger, listings) ==
    LET r == reduced(trigger, mapped(trigger, filtered(trigger, listings)))
    IN  IF is_none(r) THEN None
        ELSE IF Comparison_evaluate(trigger.comparison, unwrap(r)) THEN r
        ELSE None

\* variant of evaluate_context that goes on with the context an earlier call
\* left behind (a context kept in a static or in the trigger)
evaluate_context_kept(previous) == previous

\* line 143: `let mut context = ReducerContext::<f32> { stack: Vec::new() }`,
\* a local of the call, whatever context an earlier call ended with
evaluate_context(previous) == ReducerContext_new

\* AlertTrigger::evaluate of trigger.rs as one call among others: its result
\* and the context it ends with, `previous` being the context the call
\* before it ended with
evaluate_call(trigger, listings, previous) ==
    LET context == evaluate_context(previous)
        items   == mapped(trigger, filtered(trigger, listings))
    IN  IF Len(items) = 0 THEN [result |-> None, context |-> context]
        ELSE LET f == fold(trigger, context, items[1], items, 2)
             IN  [result  |-> IF Comparison_evaluate(trigger.comparison, f.value)
                              THEN Some(f.value) ELSE None,
                  context |-> f.context]

----------------------------------------------------------------------------
(* The wire: BSON documents as functions from field names to typed values  *)

Int32(n) == [t |-> "int32", i |-> n]

Bool(b) == [t |-> "bool", b |-> b]

Str(x) == [t |-> "string", s |-> x]

Array(a) == [t |-> "array", a |-> a]

Doc(d) == [t |-> "document", d |-> d]

\* a websocket message payload: BSON bytes of a document, or bytes that are none
Binary(d) == [wellformed |-> TRUE, document |-> d]

Garbage == [wellformed |-> FALSE]

WireListing(p, h) ==
    Doc([pricePerUnit |-> Int32(p), quantity |-> Int32(1), hq |-> Bool(h)])

\* the `listings` arrays of the frames: none, one listing, two listings
WireListingSeqs ==
    {<<>>,
     <<WireListing(0, TRUE)>>,
     <<WireListing(0, FALSE)>>,
     <<WireListing(2, TRUE)>>,
     <<WireListing(2, FALSE), WireListing(0, TRUE)>>}

\* the world of the subscribed channel, and another one
Worlds == {74, 75}

Items == {5, 7}

GoodFrames ==
    {Binary([item |-> Int32(i), world |-> Int32(w), listings |-> Array(ls)]) :
        i \in Items, w \in Worlds, ls \in WireListingSeqs}

\* not a document; a required field missing; a field of the wrong type
BadFrames ==
    {Garbage,
     Binary([world |-> Int32(74), listings |-> Array(<<>>)]),
     Binary([item |-> Str("5"), world |-> Int32(74), listings |-> Array(<<>>)])}

Frames == GoodFrames \cup BadFrames

\* Document::from_reader(&mut reader)
Document_from_reader(data) ==
    IF data.wellformed THEN Some(data.document) ELSE None

HasField(d, name, type) == name \in DOMAIN d /\ d[name].t = type

\* serde: Deserialize for Listing of main.rs (fields pricePerUnit, hq)
from_bson_Listing(b) ==
    IF b.t = "document" /\ HasField(b.d, "pricePerUnit", "int32")
                        /\ HasField(b.d, "hq", "bool")
    THEN Some([unit_price |-> b.d["pricePerUnit"].i, hq |-> b.d["hq"].b])
    ELSE None

\* serde: Deserialize for ListingsAddEvent (fields item, world, listings)
from_bson_ListingsAddEvent(d) ==
    IF /\ HasField(d, "item", "int32")
       /\ HasField(d, "world", "int32")
       /\ HasField(d, "listings", "array")
       /\ \A k \in DOMAIN d["listings"].a :
              ~is_none(from_bson_Listing(d["listings"].a[k]))
    THEN Some([item_id  |-> d["item"].i,
               world_id |-> d["world"].i,
               listings |-> [k \in DOMAIN d["listings"].a |->
                                unwrap(from_bson_Listing(d["listings"].a[k]))]])
    ELSE None

\* lines 270-273: the frame's bytes to a ListingsAddEvent; None where an unwrap panics
decode(data) ==
    LET document == Document_from_reader(data)
    IN  IF is_none(document) THEN None
        ELSE from_bson_ListingsAddEvent(unwrap(document))

----------------------------------------------------------------------------
(* The alert store: table users_alerts_next                                *)

\* the item identifier meaning "any item" in stored alerts
WildcardItem == 0

MainTrigger(fs, target) ==
    [filters |-> fs, mapper |-> "UnitPrice", reducer |-> "Min",
     comparison |-> [kind |-> "LessThan", target |-> target]]

\* column `trigger`: JSON text of an AlertTrigger, or text that is not
Json(value) == [valid |-> TRUE, value |-> value]

MalformedJson == [valid |-> FALSE]

\* serde_json::from_str::<AlertTrigger>
serde_json_from_str(text) == IF text.valid THEN Some(text.value) ELSE None

Row(w, i, hook, trig) ==
    [world_id |-> w, item_id |-> i, discord_webhook |-> hook, trigger |-> trig]

Webhook == "https://discord.com/api/webhooks/1"

StoredRows ==
    {Row(74, 5, Some(Webhook), Json(MainTrigger(<<>>, 3))),
     Row(74, 5, Some(Webhook), Json(MainTrigger(<<"Hq">>, 1))),
     Row(74, 5, None, Json(MainTrigger(<<>>, 3))),
     Row(74, 5, Some(Webhook), MalformedJson),
     Row(74, 7, Some(Webhook), Json(MainTrigger(<<>>, 3))),
     Row(75, 5, Some(Webhook), Json(MainTrigger(<<>>, 3))),
     Row(74, WildcardItem, Some(Webhook), Json(MainTrigger(<<>>, 3)))}

Stores == SeqsUpTo(StoredRows, MaxRows)

\* variant of SelectRows that returns the first matching row only (LIMIT 1)
SelectRows_first(rows, world_id, item_id) ==
    LET all == SelectSeq([k \in DOMAIN rows |-> k],
                         LAMBDA k : rows[k].world_id = world_id
                                    /\ rows[k].item_id = item_id)
    IN  SubSeq(all, 1, IF Len(all) > 1 THEN 1 ELSE Len(all))

\* the rows the SELECT of get_alerts_for_world_item returns, as store positions
SelectRows(rows, world_id, item_id) ==
    SelectSeq([k \in DOMAIN rows |-> k],
              LAMBDA k : rows[k].world_id = world_id /\ rows[k].item_id = item_id)

\* the closure of `.map(&mut conn, ...)`: one row to (UserAlert, AlertTrigger)
MapRow(rows, k) ==
    [row     |-> k,
     alert   |-> [discord_webhook |-> rows[k].discord_webhook,
                  trigger |-> rows[k].trigger],
     trigger |-> unwrap(serde_json_from_str(rows[k].trigger))]

\* get_alerts_for_world_item once the connection is there: None where the
\* unwrap of the closure panics, else the Vec of pairs
get_alerts_for_world_item(world_id, item_id, rows) ==
    LET sel == SelectRows(rows, world_id, item_id)
    IN  IF \E j \in DOMAIN sel : is_none(serde_json_from_str(rows[sel[j]].trigger))
        THEN None
        ELSE Some([j \in DOMAIN sel |-> MapRow(rows, sel[j])])

\* the item_id argument main passes to get_alerts_for_world_item
FetchItemId(event) == 5

----------------------------------------------------------------------------
(* main(): the process                                                     *)

NoEvent == [item_id |-> 0, world_id |-> 0, listings |-> <<>>]

Pending == <<0, 0>>

Init ==
    /\ pc = "start"
    /\ cause = "none"
    /\ store \in Stores
    /\ written_at = 0
    /\ frame_no = 0
    /\ ev = NoEvent
    /\ alerts = <<>>
    /\ idx = 0
    /\ trigger_result = None
    /\ posts = <<>>
    /\ conns = 0
    /\ subs = 0
    /\ e_trigger = None
    /\ e_listings = <<>>
    /\ e_result = Pending
    /\ m_trigger = None
    /\ m_result = Pending
    /\ e_context = ReducerContext_new
    /\ e_calls = 0

\* a panic in the for_each closure unwinds through main: the process aborts
Panic(why) ==
    /\ pc' = "panicked"
    /\ cause' = why

\* main returns (Err through `?`, or Ok(()) at the end): the process exits
Exit(why) ==
    /\ pc' = "exited"
    /\ cause' = why

\* line 252: connect_async(url).await succeeds
Connect ==
    /\ pc = "start"
    /\ pc' = "connected"
    /\ conns' = conns + 1
    /\ UNCHANGED <<cause, store, written_at, frame_no, ev, alerts, idx, trigger_result, posts, subs>>
    /\ UNCHANGED evalVars

\* line 252: connect_async(url).await? returns the error from main
ConnectFails ==
    /\ pc = "start"
    /\ Exit("connect_error")
    /\ UNCHANGED <<store, written_at, frame_no, ev, alerts, idx, trigger_result, posts, conns, subs>>
    /\ UNCHANGED evalVars

\* lines 257-265: the subscribe message is serialized and sent
Subscribe ==
    /\ pc = "connected"
    /\ pc' = "streaming"
    /\ subs' = subs + 1
    /\ UNCHANGED <<cause, store, written_at, frame_no, ev, alerts, idx, trigger_result, posts, conns>>
    /\ UNCHANGED evalVars

\* line 265: write.send(...).await? returns the error from main
SubscribeFails ==
    /\ pc = "connected"
    /\ Exit("subscribe_error")
    /\ UNCHANGED <<store, written_at, frame_no, ev, alerts, idx, trigger_result, posts, conns, subs>>
    /\ UNCHANGED evalVars

\* lines 269-273: the stream yields Ok(message); its data is decoded
ReadFrame ==
    /\ pc = "streaming"
    /\ frame_no < MaxFrames
    /\ \E data \in Frames :
         LET decoded == decode(data)
         IN  /\ frame_no' = frame_no + 1
             /\ IF is_none(decoded)
                THEN Panic("decode_error") /\ UNCHANGED ev
                ELSE /\ ev' = unwrap(decoded)
                     /\ pc' = "fetching"
                     /\ UNCHANGED cause
    /\ UNCHANGED <<store, written_at, alerts, idx, trigger_result, posts, conns, subs>>
    /\ UNCHANGED evalVars

\* line 270: the stream yields Err(e); message.unwrap() panics
ReadError ==
    /\ pc = "streaming"
    /\ Panic("read_error")
    /\ UNCHANGED <<store, written_at, frame_no, ev, alerts, idx, trigger_result, posts, conns, subs>>
    /\ UNCHANGED evalVars

\* lines 319-322: the stream ends, for_each completes, main returns Ok(())
StreamEnd ==
    /\ pc = "streaming"
    /\ Exit("stream_closed")
    /\ UNCHANGED <<store, written_at, frame_no, ev, alerts, idx, trigger_result, posts, conns, subs>>
    /\ UNCHANGED evalVars

\* line 275: the query runs; a malformed trigger panics in the closure
Fetch ==
    /\ pc = "fetching"
    /\ LET fetched == get_alerts_for_world_item(ev.world_id, FetchItemId(ev), store)
       IN  IF is_none(fetched)
           THEN Panic("trigger_parse_error") /\ UNCHANGED <<alerts, idx>>
           ELSE /\ alerts' = unwrap(fetched)
                /\ idx' = 1
                /\ pc' = "evaluating"
                /\ UNCHANGED cause
    /\ UNCHANGED <<store, written_at, frame_no, ev, trigger_result, posts, conns, subs>>
    /\ UNCHANGED evalVars

\* line 275: get_conn or the query returns Err; .unwrap() panics
FetchFails ==
    /\ pc = "fetching"
    /\ Panic("fetch_error")
    /\ UNCHANGED <<store, written_at, frame_no, ev, alerts, idx, trigger_result, posts, conns, subs>>
    /\ UNCHANGED evalVars

\* variant of NoMatch that also skips a match whose value is 0
NoMatch_zero_is_none(result) == is_none(result) \/ result = Some(0)

\* line 279: `if trigger_result.is_none() { continue; }`
NoMatch(result) == is_none(result)

\* lines 276-281: the loop head; the closure's future completes after the last alert
Evaluate ==
    /\ pc = "evaluating"
    /\ IF idx > Len(alerts)
       THEN /\ pc' = "streaming"
            /\ ev' = NoEvent
            /\ alerts' = <<>>
            /\ idx' = 0
            /\ trigger_result' = None
            /\ posts' = <<>>
       ELSE LET result == main_AlertTrigger_evaluate(alerts[idx].trigger, ev.listings)
            IN  /\ trigger_result' = result
                /\ IF NoMatch(result)
                   THEN idx' = idx + 1 /\ UNCHANGED pc
                   ELSE pc' = "get_item" /\ UNCHANGED idx
                /\ UNCHANGED <<ev, alerts, posts>>
    /\ UNCHANGED <<cause, store, written_at, frame_no, conns, subs>>
    /\ UNCHANGED evalVars

\* lines 284-286: get_item succeeds; then alert.discord_webhook.unwrap()
GetItem ==
    /\ pc = "get_item"
    /\ IF is_none(alerts[idx].alert.discord_webhook)
       THEN Panic("no_webhook")
       ELSE pc' = "posting" /\ UNCHANGED cause
    /\ UNCHANGED <<store, written_at, frame_no, ev, alerts, idx, trigger_result, posts, conns, subs>>
    /\ UNCHANGED evalVars

\* line 284: get_item returns Err; .unwrap() panics
GetItemFails ==
    /\ pc = "get_item"
    /\ Panic("item_error")
    /\ UNCHANGED <<store, written_at, frame_no, ev, alerts, idx, trigger_result, posts, conns, subs>>
    /\ UNCHANGED evalVars

PostRecord(outcome) ==
    [frame   |-> frame_no,
     idx     |-> idx,
     row     |-> alerts[idx].row,
     url     |-> unwrap(alerts[idx].alert.discord_webhook),
     value   |-> unwrap(trigger_result),
     outcome |-> outcome]

\* variant of Post that goes round the loop for the same alert again
Post_again ==
    /\ pc = "posting"
    /\ \E outcome \in {"delivered", "rejected"} :
           posts' = Append(posts, PostRecord(outcome))
    /\ pc' = "evaluating"
    /\ UNCHANGED <<cause, store, written_at, frame_no, ev, alerts, idx, trigger_result, conns, subs>>
    /\ UNCHANGED evalVars

\* lines 308-314: the POST gets a response (its status is not looked at)
Post ==
    /\ pc = "posting"
    /\ \E outcome \in {"delivered", "rejected"} :
           posts' = Append(posts, PostRecord(outcome))
    /\ idx' = idx + 1
    /\ pc' = "evaluating"
    /\ UNCHANGED <<cause, store, written_at, frame_no, ev, alerts, trigger_result, conns, subs>>
    /\ UNCHANGED evalVars

\* lines 308-314: send() returns Err (endpoint unreachable); .unwrap() panics
PostFails ==
    /\ pc = "posting"
    /\ posts' = Append(posts, PostRecord("unreachable"))
    /\ Panic("delivery_error")
    /\ UNCHANGED <<store, written_at, frame_no, ev, alerts, idx, trigger_result, conns, subs>>
    /\ UNCHANGED evalVars

\* the environment: users add, change and remove alerts between two frames
StoreUpdate ==
    /\ pc = "streaming"
    /\ \E s \in Stores : s /= store /\ store' = s
    /\ written_at' = frame_no
    /\ UNCHANGED <<pc, cause, frame_no, ev, alerts, idx, trigger_result, posts, conns, subs>>
    /\ UNCHANGED evalVars

Next ==
    \/ Connect
    \/ ConnectFails
    \/ Subscribe
    \/ SubscribeFails
    \/ ReadFrame
    \/ ReadError
    \/ StreamEnd
    \/ Fetch
    \/ FetchFails
    \/ Evaluate
    \/ GetItem
    \/ GetItemFails
    \/ Post
    \/ PostFails
    \/ StoreUpdate

Spec == Init /\ [][Next]_vars

----------------------------------------------------------------------------
(* SpecEval: the two evaluators on inputs drawn from bounded sets          *)

EvalListing(p, h) == [unit_price |-> p, quantity |-> 1, hq |-> h]

\* 16777217 = 2^24 + 1 is the least positive i32 that `as f32` rounds
EvalListings ==
    {EvalListing(0, FALSE),
     EvalListing(1, TRUE),
     EvalListing(1, FALSE),
     EvalListing(2, TRUE),
     EvalListing(16777217, FALSE)}

\* the targets 1.0 and 2.5
EvalTargets == {[m |-> 1, e |-> 0], [m |-> 5, e |-> -1]}

EvalTriggers ==
    [filters    : {<<>>, <<"Hq">>},
     mapper     : {"UnitPrice"},
     reducer    : {"Min", "Max", "Mean"},
     comparison : [kind : {"LessThan", "GreaterThan"}, target : EvalTargets]]

EvalMainTriggers == {MainTrigger(fs, t) : fs \in {<<>>, <<"Hq">>}, t \in {1, 3}}

InitEval ==
    /\ pc = "start"
    /\ cause = "none"
    /\ store = <<>>
    /\ written_at = 0
    /\ frame_no = 0
    /\ ev = NoEvent
    /\ alerts = <<>>
    /\ idx = 0
    /\ trigger_result = None
    /\ posts = <<>>
    /\ conns = 0
    /\ subs = 0
    /\ e_listings \in SeqsUpTo(EvalListings, MaxLen)
    /\ \/ e_trigger \in {Some(t) : t \in EvalTriggers} /\ m_trigger = None
       \/ m_trigger \in {Some(t) : t \in EvalMainTriggers} /\ e_trigger = None
    /\ e_result = Pending
    /\ m_result = Pending
    /\ e_context = ReducerContext_new
    /\ e_calls = 0

\* one call of AlertTrigger::evaluate of trigger.rs
CallEvaluate ==
    /\ ~is_none(e_trigger)
    /\ e_result = Pending
    /\ e_result' = AlertTrigger_evaluate(unwrap(e_trigger), e_listings)
    /\ UNCHANGED <<e_trigger, e_listings, m_trigger, m_result, e_context, e_calls>>
    /\ UNCHANGED pipeVars

\* one call of AlertTrigger::evaluate of main.rs
CallMainEvaluate ==
    /\ ~is_none(m_trigger)
    /\ m_result = Pending
    /\ m_result' = main_AlertTrigger_evaluate(unwrap(m_trigger), e_listings)
    /\ UNCHANGED <<e_trigger, e_listings, e_result, m_trigger, e_context, e_calls>>
    /\ UNCHANGED pipeVars

NextEval ==
    \/ CallEvaluate
    \/ CallMainEvaluate

SpecEval == InitEval /\ [][NextEval]_vars

----------------------------------------------------------------------------
(* SpecCalls: evaluate of trigger.rs after earlier calls                   *)

CallListings == {EvalListing(1, TRUE), EvalListing(2, FALSE)}

\* the triggers of the observed call: less than 2.5, greater than 1.0
CallTriggers ==
    {t \in EvalTriggers :
        t.comparison \in {[kind |-> "LessThan", target |-> [m |-> 5, e |-> -1]],
                          [kind |-> "GreaterThan", target |-> [m |-> 1, e |-> 0]]}}

\* the triggers of the earlier calls: every filter list and reducer
EarlierTriggers == {t \in CallTriggers : t.comparison.kind = "LessThan"}

\* the listings of the earlier calls: none, one, two and three listings
EarlierListings ==
    {<<>>,
     <<EvalListing(1, TRUE)>>,
     <<EvalListing(2, FALSE), EvalListing(1, TRUE)>>,
     <<EvalListing(1, TRUE), EvalListing(2, FALSE), EvalListing(2, FALSE)>>}

InitCalls ==
    /\ pc = "start"
    /\ cause = "none"
    /\ store = <<>>
    /\ written_at = 0
    /\ frame_no = 0
    /\ ev = NoEvent
    /\ alerts = <<>>
    /\ idx = 0
    /\ trigger_result = None
    /\ posts = <<>>
    /\ conns = 0
    /\ subs = 0
    /\ e_listings \in SeqsUpTo(CallListings, MaxLen)
    /\ e_trigger \in {Some(t) : t \in CallTriggers}
    /\ m_trigger = None
    /\ e_result = Pending
    /\ m_result = Pending
    /\ e_context = ReducerContext_new
    /\ e_calls = 0

\* a call of evaluate, for any trigger and any listings, made before the call
\* under observation
EarlierCall ==
    /\ e_result = Pending
    /\ e_calls < MaxCalls
    /\ \E t \in EarlierTriggers, ls \in EarlierListings :
           e_context' = evaluate_call(t, ls, e_context).context
    /\ e_calls' = e_calls + 1
    /\ UNCHANGED <<e_trigger, e_listings, e_result, m_trigger, m_result>>
    /\ UNCHANGED pipeVars

\* the call under observation, made after the earlier calls
CallAfter ==
    /\ e_result = Pending
    /\ LET call == evaluate_call(unwrap(e_trigger), e_listings, e_context)
       IN  /\ e_result' = call.result
           /\ e_context' = call.context
    /\ UNCHANGED <<e_trigger, e_listings, m_trigger, m_result, e_calls>>
    /\ UNCHANGED pipeVars

NextCalls ==
    \/ EarlierCall
    \/ CallAfter

SpecCalls == InitCalls /\ [][NextCalls]_vars

----------------------------------------------------------------------------
(* Properties                                                              *)

Terminated == pc \in {"exited", "panicked"}

\* the alerts of the frame in progress whose trigger matches the event
MatchedIdx ==
    {j \in DOMAIN alerts :
        ~is_none(main_AlertTrigger_evaluate(alerts[j].trigger, ev.listings))}

\* a POST was issued for alert j of the frame in progress
Attempted(j) == \E k \in DOMAIN posts : posts[k].idx = j

\* C1: a transport-level error (read error, close of the stream, failed
\* subscribe send) never ends the process: the client goes back to connect.
C1_StreamErrorNotTerminal ==
    ~(Terminated /\ cause \in {"read_error", "stream_closed", "subscribe_error"})

\* C2: for an event with two or more matched alerts, a delivery failure for
\* one alert does not stop processing: the process stays up, so the other
\* matched alerts and later events are still handled.
C2_DeliveryFailureIsolated ==
    (/\ Cardinality(MatchedIdx) >= 2
     /\ \E k \in DOMAIN posts : posts[k].outcome = "unreachable")
        => ~Terminated

\* C3: a frame that fails to decode is dropped and the read loop goes on: the
\* process is not ended by it.
C3_DecodeFailureDropsFrame ==
    cause = "decode_error" => ~Terminated

\* C4: a failed alert-store fetch for a frame does not abort the process and
\* does not drop the connection.
C4_FetchFailureContained ==
    cause = "fetch_error" => ~Terminated

\* C5: a row with malformed trigger JSON is skipped alone: the fetch still
\* succeeds, so the process never ends because of a stored trigger.
C5_MalformedRowSkipped ==
    cause = "trigger_parse_error" => ~Terminated

\* C6: for a matched alert with no discord_webhook, dispatch is a no-op
\* success: nothing is posted for it and nothing aborts.
C6_NoWebhookIsNoOp ==
    cause = "no_webhook" => ~Terminated

\* the rows a fetch for the event in progress is to return: same world, the
\* event's item or the wildcard item, trigger JSON well-formed
CandidateRows ==
    {k \in DOMAIN store :
        /\ store[k].world_id = ev.world_id
        /\ store[k].item_id \in {ev.item_id, WildcardItem}
        /\ ~is_none(serde_json_from_str(store[k].trigger))}

\* C7: the alerts evaluated for an event are exactly the stored alerts of the
\* event's world whose item is the event's item or the wildcard item.
C7_CandidatesAreWorldItemRows ==
    pc \in {"evaluating", "get_item", "posting"}
        => {alerts[j].row : j \in DOMAIN alerts} = CandidateRows

\* C8: when no listing passes all filters of the trigger (the empty sequence
\* included), evaluate yields no result, for every reducer and comparison,
\* in trigger.rs and in main.rs.
C8_NoSurvivorNoResult ==
    /\ (e_result /= Pending /\ Len(filtered(unwrap(e_trigger), e_listings)) = 0)
           => e_result = None
    /\ (m_result /= Pending /\ Len(main_filtered(unwrap(m_trigger), e_listings)) = 0)
           => m_result = None

\* C8 witness: evaluate was called on a non-empty sequence of which the Hq
\* filter keeps nothing
C8_Witness ==
    /\ e_result = None
    /\ Len(e_listings) > 0
    /\ unwrap(e_trigger).filters = <<"Hq">>
    /\ \A i \in DOMAIN e_listings : ~e_listings[i].hq

\* the reduced scalar of the trigger.rs call under test (one survivor at least)
ReducedOfCall ==
    unwrap(reduced(unwrap(e_trigger),
                   mapped(unwrap(e_trigger), filtered(unwrap(e_trigger), e_listings))))

\* the comparison of the call under test holds strictly on scalar r
StrictlyHolds(r) ==
    LET c == unwrap(e_trigger).comparison
    IN  \/ c.kind = "LessThan" /\ F32Lt(r, c.target)
        \/ c.kind = "GreaterThan" /\ F32Lt(c.target, r)

\* C9: with at least one surviving listing, evaluate returns the reduced
\* scalar exactly when it is strictly less (LessThan) or strictly greater
\* (GreaterThan) than the target, and no result otherwise; a reduced scalar
\* equal to the target never matches.
C9_MatchIffStrictComparison ==
    (e_result /= Pending /\ Len(filtered(unwrap(e_trigger), e_listings)) > 0)
        => LET r == ReducedOfCall
           IN  /\ e_result = IF StrictlyHolds(r) THEN Some(r) ELSE None
               /\ r = unwrap(e_trigger).comparison.target => e_result = None

\* C9 witness: a call whose reduced scalar equals the target, with no result
C9_Witness ==
    /\ e_result = None
    /\ ~is_none(e_trigger)
    /\ Len(filtered(unwrap(e_trigger), e_listings)) > 1
    /\ ReducedOfCall = unwrap(e_trigger).comparison.target

\* alerts 1..n of the frame in progress are done with: each was skipped or posted
DoneUpTo(n) ==
    \A j \in 1..n :
        Attempted(j) <=>
            ~is_none(main_AlertTrigger_evaluate(alerts[j].trigger, ev.listings))

\* C10: the pipeline goes on to dispatch an alert if and only if evaluate
\* returned a value for it, the value 0 included, and never for no result.
C10_DispatchIffSome ==
    /\ pc = "evaluating" => DoneUpTo(idx - 1)
    /\ pc \in {"get_item", "posting"}
           => /\ DoneUpTo(idx - 1)
              /\ ~is_none(trigger_result)
              /\ trigger_result =
                     main_AlertTrigger_evaluate(alerts[idx].trigger, ev.listings)
    /\ \A k \in DOMAIN posts :
           Some(posts[k].value) =
               main_AlertTrigger_evaluate(alerts[posts[k].idx].trigger, ev.listings)

\* C10 witness: in one frame an alert that matched with value 0 was posted
\* and another alert without a match was skipped
C10_Witness ==
    /\ pc = "evaluating"
    /\ idx > Len(alerts)
    /\ \E k \in DOMAIN posts : posts[k].value = 0 /\ posts[k].outcome = "delivered"
    /\ \E j \in DOMAIN alerts : ~Attempted(j)

----------------------------------------------------------------------------
(* C11: the Mean fold                                                      *)

\* the mapped values of the trigger.rs call: the survivors as f32
MappedOfCall ==
    mapped(unwrap(e_trigger), filtered(unwrap(e_trigger), e_listings))

\* a call of trigger.rs evaluate with the Mean reducer has returned
MeanCallDone ==
    /\ e_result /= Pending
    /\ unwrap(e_trigger).reducer = "Mean"
    /\ Len(MappedOfCall) > 0

\* the integer an f32 with e >= 0 stands for (every `i32 as f32` is one)
IntOf(a) == a.m * (2 ^ a.e)

RECURSIVE SumInts(_, _)
\* exact sum of the first n mapped values
SumInts(items, n) == IF n = 0 THEN 0 ELSE SumInts(items, n - 1) + IntOf(items[n])

RECURSIVE OddPart(_)
OddPart(n) == IF n % 2 = 0 THEN OddPart(n \div 2) ELSE n

RECURSIVE TwoExp(_)
\* the a with n = 2^a * OddPart(n)
TwoExp(n) == IF n % 2 = 0 THEN 1 + TwoExp(n \div 2) ELSE 0

\* the integer s >= 0 is an f32
IntRepresentable(s) == BitLen(Abs(F32Norm(s, 0).m)) <= MantissaBits

\* s / k, s >= 0, is an f32
RatioRepresentable(s, k) ==
    /\ s % OddPart(k) = 0
    /\ BitLen(Abs(F32Norm(s \div OddPart(k), 0).m)) <= MantissaBits

\* s / k as an f32, when RatioRepresentable(s, k)
ExactRatio(s, k) == F32Norm(s \div OddPart(k), -TwoExp(k))

\* the f32 nearest to s / k (ties to even), s >= 0
NearestRatio(s, k) ==
    IF s = 0 THEN [m |-> 0, e |-> 0]
    ELSE LET x == F32DivBits(s \div k, s % k, k, 0)
         IN  F32RoundMag(2 * x.q + (IF x.r = 0 THEN 0 ELSE 1), -x.s - 1)

\* the fold of the first n mapped values: its value and the context it leaves
FoldOfPrefix(n) ==
    fold(unwrap(e_trigger), ReducerContext_new, MappedOfCall[1],
         SubSeq(MappedOfCall, 1, n), 2)

\* after the i-th fold step the context holds the count i + 1
CountsRight ==
    \A n \in 2..Len(MappedOfCall) :
        FoldOfPrefix(n).context.stack = <<i32_as_f32(n)>>

\* C11 as stated: the Mean fold of k mapped values yields their arithmetic
\* mean, sum / k (taken as the f32 nearest to it, which exact equality
\* implies), and the count after the i-th step is i + 1.
C11_MeanIsArithmeticMean ==
    MeanCallDone
        => /\ FoldOfPrefix(Len(MappedOfCall)).value
                  = NearestRatio(SumInts(MappedOfCall, Len(MappedOfCall)),
                                 Len(MappedOfCall))
           /\ CountsRight

\* every prefix sum and every prefix mean of the mapped values is an f32
PrefixesRepresentable ==
    \A n \in 1..Len(MappedOfCall) :
        /\ IntRepresentable(SumInts(MappedOfCall, n))
        /\ RatioRepresentable(SumInts(MappedOfCall, n), n)

\* C11 amended: the count after the i-th step is i + 1, and when every prefix
\* sum and every prefix mean of the mapped values is an f32 the fold yields
\* exactly sum / k.
C11_MeanExactWhenRepresentable ==
    MeanCallDone
        => /\ CountsRight
           /\ PrefixesRepresentable
                  => FoldOfPrefix(Len(MappedOfCall)).value
                         = ExactRatio(SumInts(MappedOfCall, Len(MappedOfCall)),
                                      Len(MappedOfCall))

\* C11 witness: a Mean call over three survivors, not all equal, whose prefix
\* sums and means are all f32
C11_Witness ==
    /\ e_result /= Pending
    /\ ~is_none(e_trigger)
    /\ MeanCallDone
    /\ Len(MappedOfCall) = 3
    /\ MappedOfCall[1] /= MappedOfCall[3]
    /\ PrefixesRepresentable

----------------------------------------------------------------------------
(* C12: the filter stage                                                   *)

\* every configured filter predicate holds for listing l
PassesAll(l) ==
    \A i \in DOMAIN unwrap(e_trigger).filters :
        unwrap(e_trigger).filters[i] = "Hq" => l.hq

\* positions of the listings of the call that pass every filter
KeptIdx == {i \in DOMAIN e_listings : PassesAll(e_listings[i])}

\* the j-th smallest position of KeptIdx
NthKept(j) ==
    CHOOSE i \in KeptIdx : Cardinality({x \in KeptIdx : x <= i}) = j

\* C12: the filter stage keeps a listing if and only if every configured
\* filter predicate holds for it, in input order; with no filters the
\* filtered sequence is the input sequence.
C12_FilterKeepsExactlyPassing ==
    (e_result /= Pending)
        => LET kept == filtered(unwrap(e_trigger), e_listings)
           IN  /\ Len(kept) = Cardinality(KeptIdx)
               /\ \A j \in DOMAIN kept : kept[j] = e_listings[NthKept(j)]
               /\ unwrap(e_trigger).filters = <<>> => kept = e_listings

\* C12 witness: a call with the Hq filter on three listings of which the
\* middle one is dropped and the outer two are kept
C12_Witness ==
    /\ e_result /= Pending
    /\ ~is_none(e_trigger)
    /\ unwrap(e_trigger).filters = <<"Hq">>
    /\ Len(e_listings) = 3
    /\ KeptIdx = {1, 3}
    /\ e_listings[1] /= e_listings[3]

----------------------------------------------------------------------------
(* C13: Min and Max do not depend on the order of the listings             *)

\* every reordering of sequence q
Reorderings(q) ==
    {[i \in DOMAIN q |-> q[f[i]]] : f \in Permutations(DOMAIN q)}

\* C13: for the Min and Max reducers evaluate returns the same result for
\* every permutation of the listing sequence (trigger.rs; main.rs has Min).
C13_MinMaxOrderIndependent ==
    /\ (e_result /= Pending /\ unwrap(e_trigger).reducer \in {"Min", "Max"})
           => \A q \in Reorderings(e_listings) :
                  AlertTrigger_evaluate(unwrap(e_trigger), q) = e_result
    /\ (m_result /= Pending)
           => \A q \in Reorderings(e_listings) :
                  main_AlertTrigger_evaluate(unwrap(m_trigger), q) = m_result

\* C13 witness: a Min call over three survivors that matched with a value
\* other than the first survivor's
C13_Witness ==
    /\ e_result /= Pending
    /\ e_result /= None
    /\ unwrap(e_trigger).reducer = "Min"
    /\ Len(MappedOfCall) = 3
    /\ MappedOfCall[1] /= unwrap(e_result)

----------------------------------------------------------------------------
(* C14: one subscribe per connection, and again after a transport error    *)

\* the positions at which an inbound frame is being read or processed
FramePositions == {"streaming", "fetching", "evaluating", "get_item", "posting"}

\* C14: every connection gets exactly one subscribe message, sent before any
\* frame of the connection is processed, and after a transport error the
\* client is on its way to a new connection and a new subscribe, not stopped.
C14_SubscribeOnEveryConnection ==
    /\ subs <= conns
    /\ conns - subs <= 1
    /\ pc \in FramePositions => subs = conns
    /\ cause \in {"read_error", "stream_closed"}
           => pc \in {"start", "connected"} \cup FramePositions

----------------------------------------------------------------------------
(* C15, C16: concurrency between frames and between the alerts of a frame  *)

\* the positions at which the pipeline of a frame is under way
MidPipeline == {"fetching", "evaluating", "get_item", "posting"}

\* C15: frames are processed concurrently: while the pipeline of one frame is
\* under way, the next inbound frame can be taken up and start its own
\* pipeline, so that two frames are mid-pipeline at the same time.
C15_FramesProcessedConcurrently ==
    (pc \in MidPipeline /\ frame_no < MaxFrames) => ENABLED ReadFrame

\* C16: within one frame the deliveries are concurrent and independent: while
\* the lookup or the POST for one matched alert is pending, the delivery for
\* any other matched alert of the frame that has not been made yet can start.
C16_DeliveriesProceedConcurrently ==
    \A j \in MatchedIdx :
        (pc \in {"get_item", "posting"} /\ j /= idx /\ ~Attempted(j))
            => ENABLED (Next /\ pc' = "get_item" /\ idx' = j)

----------------------------------------------------------------------------
(* C17: the reducer context is scoped to one call of evaluate              *)

\* C17: the result of evaluate(trigger, listings) depends only on its two
\* arguments: after any sequence of earlier calls, for any triggers, it is the
\* result of the call made on its own, and the call began with an empty
\* context (shown by the count a Mean call ends with).
C17_ResultDependsOnArgumentsOnly ==
    (e_result /= Pending)
        => /\ e_result = AlertTrigger_evaluate(unwrap(e_trigger), e_listings)
           /\ (unwrap(e_trigger).reducer = "Mean" /\ Len(MappedOfCall) >= 2)
                  => e_context.stack = <<i32_as_f32(Len(MappedOfCall))>>

\* the context the earlier calls left when the observed call was made is not
\* recorded once the call is done, so the witness is the state of a Mean call
\* over two or more values made after an earlier call
C17_Witness ==
    /\ e_result /= Pending
    /\ e_result /= None
    /\ e_calls = MaxCalls
    /\ unwrap(e_trigger).reducer = "Mean"
    /\ Len(MappedOfCall) >= 2

----------------------------------------------------------------------------
(* C18: the alerts are fetched for every event                             *)

\* the rows of the table as it is now that the query of the frame selects
RowsNow ==
    {k \in DOMAIN store :
        /\ store[k].world_id = ev.world_id
        /\ store[k].item_id = FetchItemId(ev)}

\* C18: the alerts evaluated for an event are read from the alert store when
\* the event is processed, never kept from an earlier event: they are the
\* selected rows of the table as it is then, with the webhook and the trigger
\* the rows hold then.
C18_AlertsFetchedPerEvent ==
    pc \in {"evaluating", "get_item", "posting"}
        => /\ Len(alerts) = Cardinality(RowsNow)
           /\ {alerts[j].row : j \in DOMAIN alerts} = RowsNow
           /\ \A j \in DOMAIN alerts :
                  LET r == store[alerts[j].row]
                  IN  /\ alerts[j].alert.discord_webhook = r.discord_webhook
                      /\ alerts[j].alert.trigger = r.trigger
                      /\ Some(alerts[j].trigger) = serde_json_from_str(r.trigger)

\* C18 witness: the table was written after the first frame was processed and
\* the second frame evaluates two alerts read from it
C18_Witness ==
    /\ frame_no = 2
    /\ written_at = 1
    /\ pc = "evaluating"
    /\ Len(alerts) = 2

----------------------------------------------------------------------------
(* C19: no notification is posted twice                                    *)

\* C19: for every frame and every alert the fetch returned for it, at most
\* one POST is issued: the POSTs of a frame are for distinct alerts of that
\* frame, whatever their outcomes.
C19_AtMostOnePostPerAlert ==
    /\ Len(posts) <= Len(alerts)
    /\ \A k \in DOMAIN posts :
           /\ posts[k].frame = frame_no
           /\ posts[k].idx \in DOMAIN alerts
           /\ posts[k].row = alerts[posts[k].idx].row
    /\ \A k1, k2 \in DOMAIN posts :
           posts[k1].idx = posts[k2].idx => k1 = k2

\* C19 witness: in the second frame two alerts were posted, the first POST
\* being answered with an error status
C19_Witness ==
    /\ frame_no = 2
    /\ Len(posts) = 2
    /\ posts[1].outcome = "rejected"
    /\ posts[1].row /= posts[2].row

----------------------------------------------------------------------------
(* C20: Min and Max return an extreme of the passing listings' prices      *)

\* the mapped unit price of listing i of the trigger.rs call
PriceOf(i) == TriggerMapper_evaluate(unwrap(e_trigger).mapper, e_listings[i])

\* positions of the listings that pass every filter of the main.rs trigger
MainKeptIdx ==
    {i \in DOMAIN e_listings :
        \A k \in DOMAIN unwrap(m_trigger).filters :
            unwrap(m_trigger).filters[k] = "Hq" => e_listings[i].hq}

\* the listings at the positions of set K, in order
Only(K) == SelectSeq(e_listings, LAMBDA l : \E i \in K : e_listings[i] = l)

\* C20: a value returned for Min (Max) is the mapped unit price of a listing
\* that passes all filters and is at most (at least) the mapped unit price of
\* every passing listing; the listings a filter rejects have no influence:
\* the call without them returns the same.
C20_MinMaxIsExtremeOfPassing ==
    /\ (e_result /= Pending /\ unwrap(e_trigger).reducer \in {"Min", "Max"})
           => /\ e_result /= None
                    => /\ \E i \in KeptIdx : PriceOf(i) = unwrap(e_result)
                       /\ \A i \in KeptIdx :
                              IF unwrap(e_trigger).reducer = "Min"
                              THEN IntOf(unwrap(e_result)) <= IntOf(PriceOf(i))
                              ELSE IntOf(unwrap(e_result)) >= IntOf(PriceOf(i))
              /\ e_result = AlertTrigger_evaluate(unwrap(e_trigger), Only(KeptIdx))
    /\ (m_result /= Pending)
           => /\ m_result /= None
                    => /\ \E i \in MainKeptIdx :
                              e_listings[i].unit_price = unwrap(m_result)
                       /\ \A i \in MainKeptIdx :
                              unwrap(m_result) <= e_listings[i].unit_price
              /\ m_result = main_AlertTrigger_evaluate(unwrap(m_trigger),
                                                       Only(MainKeptIdx))

\* C20 witness: a Max call with the Hq filter returned the price of a passing
\* listing while a rejected listing has a higher price
C20_Witness ==
    /\ e_result /= Pending
    /\ e_result /= None
    /\ unwrap(e_trigger).reducer = "Max"
    /\ unwrap(e_trigger).filters = <<"Hq">>
    /\ Cardinality(KeptIdx) >= 2
    /\ \E i \in DOMAIN e_listings \ KeptIdx :
           IntOf(PriceOf(i)) > IntOf(unwrap(e_result))

=============================================================================
